---- MODULE Spec2Model ----
(***************************************************************************)
(* Model of infomodels/database: the DDL pipeline of database.go           *)
(* (rawDmsaSql, dmsaSqlMap, dmsaSql, operateOnTables, transact,            *)
(* executeSQL) and the bulk-load pipeline of load.go (lineCounter,         *)
(* copyCommand, Database.load).                                            *)
(*                                                                         *)
(* SQL text is a sequence of tokens.  Tokens of one statement are          *)
(* separated by single spaces; the token "ws" is a run of white space that *)
(* contains a newline, ";" is the statement delimiter and "(" an opening   *)
(* parenthesis.  Every other token is a word (\w+).                        *)
(***************************************************************************)
EXTENDS Integers, Sequences, FiniteSets, TLC

\* ------------------------------------------------------------------ bounds
\* Longest statement list served for the target operation.
MaxStmts == 3

\* ------------------------------------------------------------- DDL: state
VARIABLES
    d,          \* the Database object: includeTables, excludeTables, Schema, driverName, db
    ddlOp,      \* the public operation called: operator, operand, patterns
    service,    \* the schema service: response per <<operator, operand>>
    pc,         \* position of the DDL operation
    tx,         \* the *sql.Tx of transact: "nil", "open", "committed", "rolledback"
    stmts,      \* operateOnTables: the statement list returned by dmsaSql
    idx,        \* operateOnTables: index of the next statement of the range loop
    executed,   \* statements executed inside the transaction, in order
    persisted,  \* statements whose effect was committed to the database
    printed,    \* statements written to stdout, in order
    err,        \* the error result of the operation
    recovered   \* transact: what recover() returns in the deferred function

ddlVars == <<d, ddlOp, service, pc, tx, stmts, idx, executed, persisted, printed, err,
             recovered>>

\* ------------------------------------------------------------ load: state
VARIABLES
    manifest,    \* datadirectory.RecordMaps: the load tasks, in manifest order
    environ,     \* the process environment: DATABASE_LOAD_JOBS, psql in PATH
    lpc,         \* position of the goroutine running Database.load
    numJobs,     \* load: number of worker goroutines
    tasks,       \* load: the tasks channel (manifest positions waiting)
    tasksClosed, \* load: close(tasks) has happened
    taskErrors,  \* load: the taskErrors channel
    next,        \* load: manifest position the producer loop is at
    wg,          \* load: the sync.WaitGroup counter
    wpc,         \* per worker goroutine: "range", "send", "done"
    werr,        \* per worker goroutine: the error it is sending
    ran,         \* per manifest position: how many times copyCommand ran for it
    verified,    \* manifest positions whose load was verified (row counts equal)
    analyzed,    \* manifest positions for which VACUUM FREEZE ANALYZE was issued
    loadErr      \* the result of load: kind "running" until it returns

loadVars == <<manifest, environ, lpc, numJobs, tasks, tasksClosed, taskErrors, next,
              wg, wpc, werr, ran, verified, analyzed, loadErr>>

\* ------------------------------------------------- one copyCommand: state
VARIABLES
    copyTask,    \* the task of the copyCommand call observed step by step
    cpc,         \* its position: "start", "counting", "compare", "done"
    cpos,        \* lineCounter: number of bytes of the file read so far
    clc,         \* lineCounter: count, lastByte and what it returned
    copyResult   \* what copyCommand returned

copyVars == <<copyTask, cpc, cpos, clc, copyResult>>

\* --------------------------------------------- versionToShorthand: state
VARIABLES
    version,      \* the version string passed to versionToShorthand, as its characters
    vpc,          \* position of the call: "call", "done"
    shortVersion  \* what versionToShorthand returned

versionVars == <<version, vpc, shortVersion>>

\* ------------------------------------------------------------ Open: state
VARIABLES
    cachedIsValidVersion, \* the package variable: "nil" or "true"
    openArgs,             \* the arguments of the Open call in progress
    dmsa,                 \* what the service answers during this call
    opc,                  \* position of the Open call
    calls,                \* number of Open calls started in this process
    requests,             \* number of http.Get requests made by this call
    openResult,           \* what the call returned
    confirmed             \* history: the <<model, version>> pairs whose tables
                          \* endpoint has answered 200 in this process

openVars == <<cachedIsValidVersion, openArgs, dmsa, opc, calls, requests, openResult,
              confirmed>>

vars == <<ddlVars, loadVars, copyVars, versionVars, openVars>>

\* ---------------------------------------------------------- text helpers
Min(S) == CHOOSE x \in S : \A y \in S : x <= y
Max(S) == CHOOSE x \in S : \A y \in S : x >= y

IsWord(t) == t \notin {"ws", ";", "("}

\* strings.TrimSpace: leading and trailing white space is removed.
TrimSpace(s) ==
    LET keep == {i \in 1..Len(s) : s[i] # "ws"}
    IN  IF keep = {} THEN <<>> ELSE SubSeq(s, Min(keep), Max(keep))

\* strings.Split(body, ";"): the pieces between delimiters; n delimiters
\* give n+1 pieces, the last one possibly empty.
RECURSIVE Split(_)
Split(body) ==
    LET semis == {i \in 1..Len(body) : body[i] = ";"}
    IN  IF semis = {} THEN <<body>>
        ELSE <<SubSeq(body, 1, Min(semis) - 1)>>
             \o Split(SubSeq(body, Min(semis) + 1, Len(body)))

\* strings.Contains(stmt, "version_history"): a substring test, so an
\* identifier that embeds the marker contains it too.
MarkerTokens == {"version_history", "ix_version_history"}
ContainsMarker(s) == \E i \in 1..Len(s) : s[i] \in MarkerTokens

\* strings.Contains(stmt, "CREATE TABLE")
ContainsCreateTable(s) ==
    \E i \in 1..(Len(s) - 1) : s[i] = "CREATE" /\ s[i + 1] = "TABLE"

\* strings.Replace(stmt, "dms_version VARCHAR(16)", "dms_version VARCHAR(50)", 1):
\* only the first occurrence is replaced.
ReplaceDmsVersion(s) ==
    LET hits == {i \in 1..Len(s) : s[i] = "dms_version_16"}
    IN  IF hits = {} THEN s
        ELSE [i \in 1..Len(s) |-> IF i = Min(hits) THEN "dms_version_50" ELSE s[i]]

\* -------------------------------------------------- regular expressions
\* The patterns the public operations pass (database.go:489-559).  Adjacent
\* tokens are separated by one space, except next to "ws", which stands for
\* a newline; so a literal space of a pattern matches between two adjacent
\* tokens neither of which is "ws", and `.` never matches "ws".
PatCreateTable  == "CREATE TABLE.* (\\w+) \\("
PatCreateIndex  == "ON (\\w+) \\("
PatAlterTable   == "ALTER TABLE (\\w+)"
PatDropTable    == "DROP TABLE.* (\\w+)"
PatIndexTable   == " ON (\\w+) \\("
PatIndexCreate  == "CREATE INDEX (\\w+) ON"
PatIndexDrop    == "DROP INDEX (\\w+)"

NoMatch == [ok |-> FALSE, sub |-> ""]
Submatch(t) == [ok |-> TRUE, sub |-> t]

\* No newline among the tokens a..b (what `.*` may run over).
NoNewline(s, a, b) == \A k \in a..b : s[k] # "ws"

\* <prefix1> <prefix2>.* (\w+)[ \(]: leftmost start, then the greedy `.*`
\* gives the last word that the rest of the pattern still accepts.
MatchGreedy(s, w1, w2, paren) ==
    LET Ends(i) == {j \in (i + 2)..Len(s) :
                        /\ IsWord(s[j])
                        /\ NoNewline(s, i + 2, j - 1)
                        /\ paren => (j < Len(s) /\ s[j + 1] = "(")}
        starts == {i \in 1..(Len(s) - 1) :
                        s[i] = w1 /\ s[i + 1] = w2 /\ Ends(i) # {}}
    IN  IF starts = {} THEN NoMatch ELSE Submatch(s[Max(Ends(Min(starts)))])

\* [ ]ON (\w+) \(
MatchOn(s, leadingSpace) ==
    LET starts == {i \in 1..(Len(s) - 2) :
                        /\ s[i] = "ON" /\ IsWord(s[i + 1]) /\ s[i + 2] = "("
                        /\ leadingSpace => (i > 1 /\ s[i - 1] # "ws")}
    IN  IF starts = {} THEN NoMatch ELSE Submatch(s[Min(starts) + 1])

\* <w1> <w2> (\w+)[ ON]
MatchAfter(s, w1, w2, on) ==
    LET starts == {i \in 1..(Len(s) - 2) :
                        /\ s[i] = w1 /\ s[i + 1] = w2 /\ IsWord(s[i + 2])
                        /\ on => (i + 3 <= Len(s) /\ s[i + 3] = "ON")}
    IN  IF starts = {} THEN NoMatch ELSE Submatch(s[Min(starts) + 2])

\* regexp.FindStringSubmatch: the first capture group of the leftmost match.
FindStringSubmatch(pattern, s) ==
    CASE pattern = PatCreateTable -> MatchGreedy(s, "CREATE", "TABLE", TRUE)
      [] pattern = PatDropTable   -> MatchGreedy(s, "DROP", "TABLE", FALSE)
      [] pattern = PatCreateIndex -> MatchOn(s, FALSE)
      [] pattern = PatIndexTable  -> MatchOn(s, TRUE)
      [] pattern = PatAlterTable  -> MatchAfter(s, "ALTER", "TABLE", FALSE)
      [] pattern = PatIndexCreate -> MatchAfter(s, "CREATE", "INDEX", TRUE)
      [] pattern = PatIndexDrop   -> MatchAfter(s, "DROP", "INDEX", FALSE)

\* A compiled include/exclude pattern is the set of table names it matches;
\* set = FALSE is the nil *regexp.Regexp.
NilRegexp == [set |-> FALSE, matches |-> {}]
Regexp(names) == [set |-> TRUE, matches |-> names]
MatchString(re, table) == table \in re.matches

\* pedsnetVocabTablesPat, over the table names of the model.
pedsnetVocabTablesPat == Regexp({"concept"})

\* ------------------------------------------------------------- errors
NoErr == [kind |-> "nil", text |-> <<>>]
Error(kind, text) == [kind |-> kind, text |-> text]

normalPatternsType(table) ==
    [kind |-> "normal", table |-> table,
     tableCreate |-> "", entityCreate |-> "", entityDrop |-> ""]
mapPatternsType(tableCreate, entityCreate, entityDrop) ==
    [kind |-> "map", table |-> "",
     tableCreate |-> tableCreate, entityCreate |-> entityCreate, entityDrop |-> entityDrop]

\* ------------------------------------------------------- rawDmsaSql
rawDmsaSql(svc, ddlOperator, ddlOperand) ==
    LET response == svc[<<ddlOperator, ddlOperand>>]
        pieces == Split(response.body)
        Kludge(stmt) ==
            IF ContainsMarker(stmt) /\ ContainsCreateTable(stmt)
            THEN ReplaceDmsVersion(stmt) ELSE stmt
    IN  IF response.status # 200
        THEN [sqlStrings |-> <<>>, err |-> Error("fetch", <<>>)]
        ELSE [sqlStrings |-> [i \in 1..Len(pieces) |-> Kludge(pieces[i])],
              err |-> NoErr]

\* ------------------------------------------------------- dmsaSqlMap
MapPut(m, k, v) == [x \in (DOMAIN m) \cup {k} |-> IF x = k THEN v ELSE m[x]]
EmptyMap == [x \in {} |-> ""]

\* A slip: a statement whose entity name is not found is passed over.
RECURSIVE dmsaSqlMapLoopSkipsUnnamed(_, _, _, _)
dmsaSqlMapLoopSkipsUnnamed(sqls, i, patterns, m) ==
    IF i > Len(sqls) THEN [map |-> m, err |-> NoErr]
    ELSE LET stmt == sqls[i]
             tableMatches == FindStringSubmatch(patterns.tableCreate, stmt)
             entityMatches == FindStringSubmatch(patterns.entityCreate, stmt)
         IN  IF ContainsMarker(stmt) \/ ~tableMatches.ok \/ ~entityMatches.ok
             THEN dmsaSqlMapLoopSkipsUnnamed(sqls, i + 1, patterns, m)
             ELSE dmsaSqlMapLoopSkipsUnnamed(sqls, i + 1, patterns,
                                      MapPut(m, entityMatches.sub, tableMatches.sub))

\* The range loop of dmsaSqlMap from statement i on, with the map built so far.
RECURSIVE dmsaSqlMapLoop(_, _, _, _)
dmsaSqlMapLoop(sqls, i, patterns, m) ==
    IF i > Len(sqls) THEN [map |-> m, err |-> NoErr]
    ELSE LET stmt == sqls[i]
             tableMatches == FindStringSubmatch(patterns.tableCreate, stmt)
             entityMatches == FindStringSubmatch(patterns.entityCreate, stmt)
         IN  IF ContainsMarker(stmt) \/ ~tableMatches.ok
             THEN dmsaSqlMapLoop(sqls, i + 1, patterns, m)
             ELSE IF ~entityMatches.ok
                  THEN [map |-> m, err |-> Error("entityCreate", stmt)]
                  ELSE dmsaSqlMapLoop(sqls, i + 1, patterns,
                                      MapPut(m, entityMatches.sub, tableMatches.sub))

dmsaSqlMap(svc, ddlOperator, ddlOperand, patterns) ==
    LET raw == rawDmsaSql(svc, ddlOperator, ddlOperand)
    IN  IF raw.err # NoErr THEN [map |-> EmptyMap, err |-> raw.err]
        ELSE dmsaSqlMapLoop(raw.sqlStrings, 1, patterns, EmptyMap)

\* ---------------------------------------------------------- dmsaSql
\* A slip: the exclude pattern is looked at first.
ShouldIncludeTableExcludeFirst(db, table) ==
    IF db.excludeTables.set THEN ~MatchString(db.excludeTables, table)
    ELSE IF db.includeTables.set THEN MatchString(db.includeTables, table)
    ELSE FALSE

\* A slip: the exclude test without its negation.
ShouldIncludeTableExcludeInverted(db, table) ==
    IF db.includeTables.set THEN MatchString(db.includeTables, table)
    ELSE IF db.excludeTables.set THEN MatchString(db.excludeTables, table)
    ELSE FALSE

\* The include/exclude decision of dmsaSql for a resolved table name
\* (database.go:333-341).
ShouldIncludeTable(db, table) ==
    IF db.includeTables.set THEN MatchString(db.includeTables, table)
    ELSE IF db.excludeTables.set THEN ~MatchString(db.excludeTables, table)
    ELSE FALSE

\* A slip: the captured entity name used as the table name.
ResolveTableDirect(hasMap, entityToTableMap, sub) == [ok |-> TRUE, table |-> sub]

\* The table name dmsaSql resolves for a statement that matched `pattern`:
\* the capture itself, or its entry in the map ("" with ok = FALSE when the
\* entity is not in the map).
ResolveTable(hasMap, entityToTableMap, sub) ==
    IF hasMap
    THEN IF sub \in DOMAIN entityToTableMap
         THEN [ok |-> TRUE, table |-> entityToTableMap[sub]]
         ELSE [ok |-> FALSE, table |-> ""]
    ELSE [ok |-> TRUE, table |-> sub]

\* A slip: a statement the pattern does not match is kept.
ShouldIncludeKeepsUnmatched(db, stmt, submatches, resolved) ==
    IF ContainsMarker(stmt) THEN TRUE
    ELSE IF submatches.ok THEN ShouldIncludeTable(db, resolved.table)
    ELSE TRUE

\* A slip: version_history statements go through the filter like the others.
ShouldIncludeFiltersLifecycle(db, stmt, submatches, resolved) ==
    IF submatches.ok THEN ShouldIncludeTable(db, resolved.table) ELSE FALSE

\* Whether dmsaSql keeps a trimmed statement (database.go:317-343): a
\* version_history statement always, a statement the pattern matched by the
\* filter on its table, any other statement never.
ShouldInclude(db, stmt, submatches, resolved) ==
    IF ContainsMarker(stmt) THEN TRUE
    ELSE IF submatches.ok THEN ShouldIncludeTable(db, resolved.table)
    ELSE FALSE

\* A slip: the statement put in front of the list.
PrependStmt(out, stmt) == <<stmt>> \o out

\* sqlStrings = append(sqlStrings, stmt)
AppendStmt(out, stmt) == Append(out, stmt)

\* A slip: err is what the last statement of the loop left.
RECURSIVE dmsaSqlLoopForgetsError(_, _, _, _, _, _, _, _)
dmsaSqlLoopForgetsError(db, sqls, i, pattern, hasMap, entityToTableMap, out, e) ==
    IF i > Len(sqls) THEN [sqlStrings |-> out, err |-> e]
    ELSE LET stmt == TrimSpace(sqls[i])
             submatches == FindStringSubmatch(pattern, stmt)
             resolved == ResolveTable(hasMap, entityToTableMap, submatches.sub)
             e2 == IF ~ContainsMarker(stmt) /\ submatches.ok /\ ~resolved.ok
                   THEN Error("lookup", stmt) ELSE NoErr
         IN  dmsaSqlLoopForgetsError(db, sqls, i + 1, pattern, hasMap, entityToTableMap,
                         IF ShouldInclude(db, stmt, submatches, resolved)
                         THEN AppendStmt(out, stmt) ELSE out,
                         e2)

\* The range loop of dmsaSql from statement i on; e is the error so far.
RECURSIVE dmsaSqlLoop(_, _, _, _, _, _, _, _)
dmsaSqlLoop(db, sqls, i, pattern, hasMap, entityToTableMap, out, e) ==
    IF i > Len(sqls) THEN [sqlStrings |-> out, err |-> e]
    ELSE LET stmt == TrimSpace(sqls[i])
             submatches == FindStringSubmatch(pattern, stmt)
             resolved == ResolveTable(hasMap, entityToTableMap, submatches.sub)
             e2 == IF ~ContainsMarker(stmt) /\ submatches.ok /\ ~resolved.ok
                   THEN Error("lookup", stmt) ELSE e
         IN  dmsaSqlLoop(db, sqls, i + 1, pattern, hasMap, entityToTableMap,
                         IF ShouldInclude(db, stmt, submatches, resolved)
                         THEN AppendStmt(out, stmt) ELSE out,
                         e2)

dmsaSql(db, svc, ddlOperator, ddlOperand, patterns) ==
    LET raw == rawDmsaSql(svc, ddlOperator, ddlOperand)
        hasMap == patterns.kind = "map"
        built == IF hasMap THEN dmsaSqlMap(svc, "ddl", ddlOperand, patterns)
                 ELSE [map |-> EmptyMap, err |-> NoErr]
        pattern == IF hasMap THEN patterns.entityDrop ELSE patterns.table
    IN  IF raw.err # NoErr THEN [sqlStrings |-> <<>>, err |-> raw.err]
        ELSE IF built.err # NoErr THEN [sqlStrings |-> <<>>, err |-> built.err]
        ELSE dmsaSqlLoop(db, raw.sqlStrings, 1, pattern, hasMap, built.map, <<>>, NoErr)

\* ------------------------------------------------ executeSQL, transact
SearchPathSQL(schema) == <<"SET", "search_path", "TO", schema>>

\* A slip: the dry-run branch prints the statement twice.
executeSQLPrintsTwice(txv, sql, execOk, ex, pr) ==
    LET trimmed == TrimSpace(sql)
    IN  IF txv = "nil"
        THEN [executed |-> ex, printed |-> pr \o <<trimmed, trimmed>>, err |-> NoErr]
        ELSE IF execOk
             THEN [executed |-> Append(ex, trimmed), printed |-> pr, err |-> NoErr]
             ELSE [executed |-> ex, printed |-> pr, err |-> Error("exec", trimmed)]

\* executeSQL(tx, sql): with no transaction the trimmed statement is printed,
\* otherwise it is executed in the transaction; execOk is the database's answer.
executeSQL(txv, sql, execOk, ex, pr) ==
    LET trimmed == TrimSpace(sql)
    IN  IF txv = "nil"
        THEN [executed |-> ex, printed |-> Append(pr, trimmed), err |-> NoErr]
        ELSE IF execOk
             THEN [executed |-> Append(ex, trimmed), printed |-> pr, err |-> NoErr]
             ELSE [executed |-> ex, printed |-> pr, err |-> Error("exec", trimmed)]

\* The values a panic inside txFunc may carry: an error or something else;
\* "none" when txFunc did not panic.
PanicValues == {"error", "string"}

\* database.go:139-146: the error after recover().
Recover(e, p) == IF p # "none" THEN Error("panic", <<p>>) ELSE e

\* A slip: the deferred function commits whatever txFunc returned.
TransactDeferAlwaysCommits(txv, e, p, commitOk) ==
    IF txv # "nil"
    THEN IF commitOk THEN [tx |-> "committed", err |-> Recover(e, p)]
         ELSE [tx |-> "commitfailed", err |-> Error("commit", <<>>)]
    ELSE [tx |-> txv, err |-> Recover(e, p)]

\* A slip: the deferred function does not look at the recovered panic.
TransactDeferIgnoresPanic(txv, e, p, commitOk) ==
    IF e # NoErr
    THEN [tx |-> IF txv # "nil" THEN "rolledback" ELSE txv, err |-> e]
    ELSE IF txv # "nil"
         THEN IF commitOk THEN [tx |-> "committed", err |-> NoErr]
              ELSE [tx |-> "commitfailed", err |-> Error("commit", <<>>)]
         ELSE [tx |-> txv, err |-> NoErr]

\* The deferred function of transact (database.go:138-156): the state of the
\* transaction and the error returned, given the error e of txFunc and the
\* value p it panicked with.
TransactDefer(txv, e, p, commitOk) ==
    LET e1 == Recover(e, p)
    IN  IF e1 # NoErr
        THEN [tx |-> IF txv # "nil" THEN "rolledback" ELSE txv, err |-> e1]
        ELSE IF txv # "nil"
             THEN IF commitOk THEN [tx |-> "committed", err |-> NoErr]
                  ELSE [tx |-> "commitfailed", err |-> Error("commit", <<>>)]
             ELSE [tx |-> txv, err |-> NoErr]

\* ------------------------------------------------- the public operations
CreateTables      == [name |-> "CreateTables", operator |-> "ddl", operand |-> "tables",
                      patterns |-> normalPatternsType(PatCreateTable)]
CreateIndexes     == [name |-> "CreateIndexes", operator |-> "ddl", operand |-> "indexes",
                      patterns |-> normalPatternsType(PatCreateIndex)]
CreateConstraints == [name |-> "CreateConstraints", operator |-> "ddl", operand |-> "constraints",
                      patterns |-> normalPatternsType(PatAlterTable)]
DropTables        == [name |-> "DropTables", operator |-> "drop", operand |-> "tables",
                      patterns |-> normalPatternsType(PatDropTable)]
DropIndexes       == [name |-> "DropIndexes", operator |-> "drop", operand |-> "indexes",
                      patterns |-> mapPatternsType(PatIndexTable, PatIndexCreate, PatIndexDrop)]
DropConstraints   == [name |-> "DropConstraints", operator |-> "drop", operand |-> "constraints",
                      patterns |-> normalPatternsType(PatAlterTable)]

Operations == {CreateTables, CreateIndexes, CreateConstraints,
               DropTables, DropIndexes, DropConstraints}

\* ------------------------------------------- what the service may serve
Keys == {"ddl", "drop"} \X {"tables", "indexes", "constraints"}

CorpusSeq(key) ==
    CASE key = <<"ddl", "tables">> ->
           << <<"ws", "CREATE", "TABLE", "person", "(", "ws">>,
              <<"ws", "CREATE", "TABLE", "concept", "(">>,
              <<"ws", "CREATE", "TABLE", "version_history", "(", "dms_version_16", "dms_version_16">>,
              <<"ws", "COMMENT", "ON", "person">> >>
      [] key = <<"ddl", "indexes">> ->
           << <<"ws", "CREATE", "INDEX", "ix_person", "ON", "person", "(">>,
              <<"ws", "CREATE", "INDEX", "ix_concept", "ON", "concept", "(">>,
              <<"ws", "CREATE", "INDEX", "ix_version_history", "ON", "version_history", "(">>,
              <<"ws", "CREATE", "UNIQUE", "INDEX", "ux_person", "ON", "person", "(">>,
              <<"ws", "CREATE", "INDEX", "ix_note", "ON", "ws", "note", "(">> >>
      [] key = <<"ddl", "constraints">> ->
           << <<"ws", "ALTER", "TABLE", "person", "ADD", "CONSTRAINT", "fk_person">>,
              <<"ws", "ALTER", "TABLE", "concept", "ADD", "CONSTRAINT", "fk_concept">>,
              <<"ws", "INSERT", "INTO", "version_history">> >>
      [] key = <<"drop", "tables">> ->
           << <<"ws", "DROP", "TABLE", "IF", "EXISTS", "person">>,
              <<"ws", "DROP", "TABLE", "concept">>,
              <<"ws", "DROP", "TABLE", "version_history">> >>
      [] key = <<"drop", "indexes">> ->
           << <<"ws", "DROP", "INDEX", "ix_person">>,
              <<"ws", "DROP", "INDEX", "ix_concept">>,
              <<"ws", "DROP", "INDEX", "ix_version_history">> >>
      [] key = <<"drop", "constraints">> ->
           << <<"ws", "ALTER", "TABLE", "person", "DROP", "CONSTRAINT", "fk_person">>,
              <<"ws", "ALTER", "TABLE", "concept", "DROP", "CONSTRAINT", "fk_concept">>,
              <<"ws", "DELETE", "FROM", "version_history">> >>

Corpus(key) == {CorpusSeq(key)[i] : i \in 1..Len(CorpusSeq(key))}

\* The statements of seq at the positions in S, in the order of seq.
RECURSIVE Pick(_, _)
Pick(seq, S) ==
    IF S = {} THEN <<>> ELSE Pick(seq, S \ {Max(S)}) \o <<seq[Max(S)]>>

\* The create forms the service may serve to dmsaSqlMap: each entity of the
\* schema is created at most once.
CreateLists(key) == {Pick(CorpusSeq(key), S) : S \in SUBSET (1..Len(CorpusSeq(key)))}

StmtLists(key, n) == UNION {[1..k -> Corpus(key)] : k \in 0..n}

\* The response body: the statements, each followed by ";" except that the
\* last keeps its delimiter (and a final newline) only when trailing.
RECURSIVE Body(_, _)
Body(list, trailing) ==
    IF list = <<>> THEN <<>>
    ELSE IF Len(list) = 1
         THEN Head(list) \o (IF trailing THEN <<";", "ws">> ELSE <<>>)
         ELSE Head(list) \o <<";">> \o Body(Tail(list), trailing)

Response(status, body) == [status |-> status, body |-> body]

\* includeTables / excludeTables as Open leaves them (database.go:442-456).
FilterPatterns == {NilRegexp, pedsnetVocabTablesPat}

Databases ==
    [includeTables : FilterPatterns, excludeTables : FilterPatterns,
     Schema : {"", "dcc"}, driverName : {"postgres"}, db : {"nil", "open"}]

\* ------------------------------------------------------------ DDL: Init
InitDDL ==
    /\ d \in Databases
    /\ ddlOp \in Operations
    /\ \E list \in StmtLists(<<ddlOp.operator, ddlOp.operand>>, MaxStmts),
          created \in CreateLists(<<"ddl", ddlOp.operand>>),
          trailing \in BOOLEAN, status \in {200, 500} :
          /\ status = 500 => (list = <<>> /\ ~trailing)
          /\ ddlOp.patterns.kind # "map" => created = <<>>
          /\ service = [k \in Keys |->
                 IF k = <<ddlOp.operator, ddlOp.operand>>
                 THEN Response(status, Body(list, trailing))
                 ELSE IF ddlOp.patterns.kind = "map" /\ k = <<"ddl", ddlOp.operand>>
                      THEN Response(200, Body(created, TRUE))
                      ELSE Response(200, <<>>)]
    /\ pc = "call"
    /\ tx = "nil"
    /\ stmts = <<>>
    /\ idx = 1
    /\ executed = <<>>
    /\ persisted = <<>>
    /\ printed = <<>>
    /\ err = NoErr
    /\ recovered = "none"

\* --------------------------------------------------------- DDL: actions
\* d.CreateTables() ... d.DropConstraints() up to the call of txFunc:
\* the driver check, then transact's db.Begin().
CallOperation ==
    /\ pc = "call"
    /\ \E beginOk \in BOOLEAN :
          IF d.driverName # "postgres"
          THEN /\ err' = Error("driver", <<>>) /\ pc' = "done" /\ tx' = tx
          ELSE IF d.db = "nil"
               THEN /\ tx' = "nil" /\ pc' = "dmsaSql" /\ err' = err
               ELSE IF beginOk
                    THEN /\ tx' = "open" /\ pc' = "dmsaSql" /\ err' = err
                    ELSE /\ tx' = tx /\ pc' = "done" /\ err' = Error("begin", <<>>)
    /\ UNCHANGED <<d, ddlOp, service, stmts, idx, executed, persisted, printed, recovered>>

\* operateOnTables, database.go:373-377.
OperateDmsaSql ==
    /\ pc = "dmsaSql"
    /\ LET r == dmsaSql(d, service, ddlOp.operator, ddlOp.operand, ddlOp.patterns)
       IN  IF r.err # NoErr
           THEN /\ err' = r.err /\ pc' = "defer" /\ stmts' = stmts
           ELSE /\ stmts' = r.sqlStrings /\ pc' = "searchPath" /\ err' = err
    /\ UNCHANGED <<d, ddlOp, service, tx, idx, executed, persisted, printed, recovered>>

\* operateOnTables, database.go:379-387.
OperateSearchPath ==
    /\ pc = "searchPath"
    /\ \E execOk \in BOOLEAN :
          IF d.Schema = ""
          THEN /\ pc' = "loop" /\ UNCHANGED <<executed, printed, err>>
          ELSE IF d.driverName # "postgres"
               THEN /\ err' = Error("schema", <<>>) /\ pc' = "defer"
                    /\ UNCHANGED <<executed, printed>>
               ELSE LET r == executeSQL(tx, SearchPathSQL(d.Schema), execOk, executed, printed)
                    IN  /\ executed' = r.executed /\ printed' = r.printed
                        /\ err' = r.err
                        /\ pc' = IF r.err # NoErr THEN "defer" ELSE "loop"
    /\ UNCHANGED <<d, ddlOp, service, tx, stmts, idx, persisted, recovered>>

\* operateOnTables, database.go:389-394: one iteration of the range loop, or
\* the return after the last one.  A panic inside tx.Exec leaves txFunc
\* without a return value and runs the deferred function of transact.
OperateExecute ==
    /\ pc = "loop"
    /\ \E execOk \in BOOLEAN, p \in PanicValues \cup {"none"} :
          /\ p # "none" => (tx # "nil" /\ idx <= Len(stmts) /\ ~execOk)
          /\ IF idx > Len(stmts)
             THEN /\ pc' = "defer" /\ UNCHANGED <<idx, executed, printed, err, recovered>>
             ELSE IF p # "none"
                  THEN /\ recovered' = p /\ pc' = "defer"
                       /\ UNCHANGED <<idx, executed, printed, err>>
                  ELSE LET r == executeSQL(tx, stmts[idx], execOk, executed, printed)
                       IN  /\ executed' = r.executed /\ printed' = r.printed
                           /\ recovered' = recovered
                           /\ IF r.err # NoErr
                              THEN /\ err' = Error("exec", stmts[idx]) /\ pc' = "defer"
                                   /\ idx' = idx
                              ELSE /\ err' = err /\ pc' = pc /\ idx' = idx + 1
    /\ UNCHANGED <<d, ddlOp, service, tx, stmts, persisted>>

\* transact's deferred function, database.go:138-156.
TransactDeferred ==
    /\ pc = "defer"
    /\ \E commitOk \in BOOLEAN :
          LET r == TransactDefer(tx, err, recovered, commitOk)
          IN  /\ tx' = r.tx /\ err' = r.err
              /\ persisted' = IF r.tx = "committed" THEN executed ELSE persisted
    /\ pc' = "done"
    /\ UNCHANGED <<d, ddlOp, service, stmts, idx, executed, printed, recovered>>

\* The load pipeline at rest, while the DDL pipeline is the one observed.
LoadIdle ==
    /\ manifest = <<>>
    /\ environ = [DATABASE_LOAD_JOBS |-> "", psqlInPath |-> TRUE]
    /\ lpc = "idle"
    /\ numJobs = 0
    /\ tasks = <<>>
    /\ tasksClosed = FALSE
    /\ taskErrors = <<>>
    /\ next = 1
    /\ wg = 0
    /\ wpc = <<>>
    /\ werr = <<>>
    /\ ran = <<>>
    /\ verified = {}
    /\ analyzed = {}
    /\ loadErr = [kind |-> "running", messages |-> <<>>]

\* No copyCommand call is observed step by step.
CopyIdle ==
    /\ copyTask = [headerOk |-> TRUE, runOk |-> TRUE, countOk |-> TRUE, actualRows |-> 0,
                   csv |-> [lines |-> <<0>>, terminated |-> TRUE],
                   readOk |-> TRUE, analyzeOk |-> TRUE]
    /\ cpc = "idle"
    /\ cpos = 0
    /\ clc = [count |-> 0, lastByte |-> "nl", returned |-> FALSE, err |-> "nil"]
    /\ copyResult = [err |-> [kind |-> "nil", table |-> 0, actual |-> 0, expected |-> 0],
                     verified |-> FALSE, analyzed |-> FALSE]

\* No versionToShorthand call and no Open call is observed.
VersionIdle ==
    /\ version = <<>>
    /\ vpc = "idle"
    /\ shortVersion = [shortVersion |-> <<>>, err |-> "nil"]

\* What Open has returned while it has returned nothing.
NoDatabase == [Model |-> "", ModelVersion |-> <<>>,
               includeTables |-> NilRegexp, excludeTables |-> NilRegexp]
NoOpenResult == [kind |-> "none", err |-> "nil", database |-> NoDatabase]

OpenIdle ==
    /\ cachedIsValidVersion = "nil"
    /\ openArgs = [model |-> "pedsnet", modelVersion |-> <<>>,
                   includeTablesPat |-> "", excludeTablesPat |-> ""]
    /\ dmsa = [root |-> "200", tables |-> "200"]
    /\ opc = "idle"
    /\ calls = 0
    /\ requests = 0
    /\ openResult = NoOpenResult
    /\ confirmed = {}

Init == InitDDL /\ LoadIdle /\ CopyIdle /\ VersionIdle /\ OpenIdle

Next ==
    \/ CallOperation /\ UNCHANGED <<loadVars, copyVars, versionVars, openVars>>
    \/ OperateDmsaSql /\ UNCHANGED <<loadVars, copyVars, versionVars, openVars>>
    \/ OperateSearchPath /\ UNCHANGED <<loadVars, copyVars, versionVars, openVars>>
    \/ OperateExecute /\ UNCHANGED <<loadVars, copyVars, versionVars, openVars>>
    \/ TransactDeferred /\ UNCHANGED <<loadVars, copyVars, versionVars, openVars>>

Spec == Init /\ [][Next]_vars

\* ====================================================== load.go: model
\* Capacity of the tasks channel and of the taskErrors channel.
TasksCap == 100
TaskErrorsCap == 100
\* numJobs when DATABASE_LOAD_JOBS is not set.
DefaultJobs == 4

\* ------------------------------------------------------------ csv files
\* A csv file is its physical lines: the length of each line (without its
\* newline), first the header; the last line may lack its newline and is
\* then not empty.  Bytes are "nl" for '\n' and "x" for any other byte.
RECURSIVE FileBytes(_, _)
FileBytes(lines, terminated) ==
    IF lines = <<>> THEN <<>>
    ELSE [i \in 1..Head(lines) |-> "x"]
         \o (IF Len(lines) > 1 \/ terminated THEN <<"nl">> ELSE <<>>)
         \o FileBytes(Tail(lines), terminated)

\* bytes.Count(buf[:c], lineSep)
CountNewlines(chunk) == Cardinality({i \in 1..Len(chunk) : chunk[i] = "nl"})

\* lineCounter before its first Read.
LineCounterStart == [count |-> 0, lastByte |-> "nl", returned |-> FALSE, err |-> "nil"]

\* A slip: lastByte is taken from the current chunk alone.
LineCounterReadForgetsLastByte(lc, chunk, e) ==
    LET lastByte == IF Len(chunk) > 0 THEN chunk[Len(chunk)] ELSE "nl"
        count == lc.count + CountNewlines(chunk)
    IN  CASE e = "EOF" ->
               [count |-> IF lastByte # "nl" THEN count + 1 ELSE count,
                lastByte |-> lastByte, returned |-> TRUE, err |-> "nil"]
          [] e = "nil" ->
               [count |-> count, lastByte |-> lastByte, returned |-> FALSE, err |-> "nil"]
          [] OTHER ->
               [count |-> count, lastByte |-> lastByte, returned |-> TRUE, err |-> "error"]

\* One iteration of lineCounter's loop: r.Read gave `chunk` and the error
\* e ("nil", "EOF" or "error").
LineCounterRead(lc, chunk, e) ==
    LET lastByte == IF Len(chunk) > 0 THEN chunk[Len(chunk)] ELSE lc.lastByte
        count == lc.count + CountNewlines(chunk)
    IN  CASE e = "EOF" ->
               [count |-> IF lastByte # "nl" THEN count + 1 ELSE count,
                lastByte |-> lastByte, returned |-> TRUE, err |-> "nil"]
          [] e = "nil" ->
               [count |-> count, lastByte |-> lastByte, returned |-> FALSE, err |-> "nil"]
          [] OTHER ->
               [count |-> count, lastByte |-> lastByte, returned |-> TRUE, err |-> "error"]

\* rowsInFile when the file is read in one piece: all its bytes, then EOF.
rowsInFile(file) ==
    LineCounterRead(LineCounterRead(LineCounterStart, file, "nil"), <<>>, "EOF")

\* ---------------------------------------------------------- copyCommand
NoLoadErr == [kind |-> "nil", table |-> 0, actual |-> 0, expected |-> 0]
LoadError(kind, table) == [kind |-> kind, table |-> table, actual |-> 0, expected |-> 0]
MismatchError(table, actual, expected) ==
    [kind |-> "mismatch", table |-> table, actual |-> actual, expected |-> expected]

\* copyCommand up to the count of the destination rows (load.go:127-164):
\* the error it returns there, or nil.
CopyUntilCount(env, table, task) ==
    IF ~task.headerOk THEN LoadError("header", table)
    ELSE IF ~env.psqlInPath THEN LoadError("psql", table)
    ELSE IF ~task.runOk THEN LoadError("run", table)
    ELSE IF ~task.countOk THEN LoadError("count", table)
    ELSE NoLoadErr

\* The comparison of the two counts (load.go:172).
RowsDiffer(actualRows, expectedRows) == actualRows # expectedRows

\* analyze (load.go:95-110): VACUUM FREEZE ANALYZE on the table.
analyze(table, task) ==
    IF task.analyzeOk THEN NoLoadErr ELSE LoadError("analyze", table)

\* A slip: the error of analyze is returned to the worker.
CopyAfterCountReturnsAnalyzeError(table, task, lc) ==
    LET expectedRows == lc.count - 1
    IN  IF lc.err # "nil"
        THEN [err |-> LoadError("lines", table), verified |-> FALSE, analyzed |-> FALSE]
        ELSE IF RowsDiffer(task.actualRows, expectedRows)
             THEN [err |-> MismatchError(table, task.actualRows, expectedRows),
                   verified |-> FALSE, analyzed |-> FALSE]
             ELSE [err |-> analyze(table, task), verified |-> TRUE, analyzed |-> TRUE]

\* copyCommand from the count of the file's lines on (load.go:166-183); lc is
\* what lineCounter returned.  analyze is called on a match and what it
\* returns is dropped.
CopyAfterCount(table, task, lc) ==
    LET expectedRows == lc.count - 1
    IN  IF lc.err # "nil"
        THEN [err |-> LoadError("lines", table), verified |-> FALSE, analyzed |-> FALSE]
        ELSE IF RowsDiffer(task.actualRows, expectedRows)
             THEN [err |-> MismatchError(table, task.actualRows, expectedRows),
                   verified |-> FALSE, analyzed |-> FALSE]
             ELSE LET dropped == analyze(table, task)
                  IN  [err |-> NoLoadErr, verified |-> TRUE, analyzed |-> TRUE]

copyCommand(env, table, task) ==
    LET early == CopyUntilCount(env, table, task)
    IN  IF early # NoLoadErr
        THEN [err |-> early, verified |-> FALSE, analyzed |-> FALSE]
        ELSE CopyAfterCount(table, task,
                 IF task.readOk
                 THEN rowsInFile(FileBytes(task.csv.lines, task.csv.terminated))
                 ELSE [count |-> 0, lastByte |-> "nl", returned |-> TRUE, err |-> "error"])

\* strconv.Atoi over the values DATABASE_LOAD_JOBS takes in the model.
Atoi(str) ==
    CASE str = "0" -> [ok |-> TRUE, n |-> 0]
      [] str = "1" -> [ok |-> TRUE, n |-> 1]
      [] str = "2" -> [ok |-> TRUE, n |-> 2]
      [] str = "3" -> [ok |-> TRUE, n |-> 3]
      [] str = "-1" -> [ok |-> TRUE, n |-> 0 - 1]
      [] OTHER -> [ok |-> FALSE, n |-> 0]

\* A slip: zero workers are accepted.
NumJobsAcceptsZero(str) ==
    LET parsed == Atoi(str)
    IN  IF str = "" THEN [ok |-> TRUE, n |-> DefaultJobs]
        ELSE IF ~parsed.ok \/ parsed.n < 0 THEN [ok |-> FALSE, n |-> parsed.n]
        ELSE [ok |-> TRUE, n |-> parsed.n]

\* numJobs as load takes it from DATABASE_LOAD_JOBS (load.go:213-220).
NumJobs(str) ==
    LET parsed == Atoi(str)
    IN  IF str = "" THEN [ok |-> TRUE, n |-> DefaultJobs]
        ELSE IF ~parsed.ok \/ ~(parsed.n > 0) THEN [ok |-> FALSE, n |-> parsed.n]
        ELSE [ok |-> TRUE, n |-> parsed.n]

\* ------------------------------------------------------------ load: Init
\* Most load tasks of a manifest.
MaxTasks == 3

Csv(lines, terminated) == [lines |-> lines, terminated |-> terminated]
GoodTask ==
    [headerOk |-> TRUE, runOk |-> TRUE, countOk |-> TRUE, actualRows |-> 2,
     csv |-> Csv(<<1, 1, 1>>, TRUE), readOk |-> TRUE, analyzeOk |-> TRUE]
RunFailsTask == [GoodTask EXCEPT !.runOk = FALSE]
MismatchTask == [GoodTask EXCEPT !.actualRows = 1]
AnalyzeFailsTask == [GoodTask EXCEPT !.analyzeOk = FALSE]
TaskKinds == {GoodTask, RunFailsTask, MismatchTask, AnalyzeFailsTask}

\* More failing tasks than taskErrors can buffer, for a single worker.
ManyFailingTasks == [i \in 1..(TaskErrorsCap + 2) |-> RunFailsTask]

DDLIdle ==
    /\ d = [includeTables |-> NilRegexp, excludeTables |-> NilRegexp,
            Schema |-> "", driverName |-> "postgres", db |-> "open"]
    /\ ddlOp = CreateTables
    /\ service = [k \in Keys |-> Response(200, <<>>)]
    /\ pc = "idle"
    /\ tx = "nil"
    /\ stmts = <<>>
    /\ idx = 1
    /\ executed = <<>>
    /\ persisted = <<>>
    /\ printed = <<>>
    /\ err = NoErr
    /\ recovered = "none"

InitLoad ==
    /\ \/ /\ manifest \in UNION {[1..k -> TaskKinds] : k \in 0..MaxTasks}
          /\ environ \in [DATABASE_LOAD_JOBS : {"", "1", "2", "0", "-1", "abc"},
                          psqlInPath : BOOLEAN]
       \/ /\ manifest = ManyFailingTasks
          /\ environ = [DATABASE_LOAD_JOBS |-> "1", psqlInPath |-> TRUE]
    /\ lpc = "start"
    /\ numJobs = 0
    /\ tasks = <<>>
    /\ tasksClosed = FALSE
    /\ taskErrors = <<>>
    /\ next = 1
    /\ wg = 0
    /\ wpc = <<>>
    /\ werr = <<>>
    /\ ran = [i \in 1..Len(manifest) |-> 0]
    /\ verified = {}
    /\ analyzed = {}
    /\ loadErr = [kind |-> "running", messages |-> <<>>]

\* --------------------------------------------------------- load: actions
\* load.go:213-235: numJobs from the environment, then the workers are spawned.
LoadStart ==
    /\ lpc = "start"
    /\ LET jobs == NumJobs(environ.DATABASE_LOAD_JOBS)
           n == jobs.n
       IN  IF ~jobs.ok
           THEN /\ loadErr' = [kind |-> "invalidJobs", messages |-> <<>>]
                /\ lpc' = "done"
                /\ UNCHANGED <<numJobs, wg, wpc, werr>>
           ELSE /\ numJobs' = n
                /\ wg' = n
                /\ wpc' = [w \in 1..n |-> "range"]
                /\ werr' = [w \in 1..n |-> NoLoadErr]
                /\ lpc' = "produce"
                /\ UNCHANGED loadErr
    /\ UNCHANGED <<manifest, environ, tasks, tasksClosed, taskErrors, next,
                   ran, verified, analyzed>>

\* load.go:239-249: one iteration of the producer loop; the send blocks
\* while the tasks channel is full.
LoadEnqueue ==
    /\ lpc = "produce"
    /\ next <= Len(manifest)
    /\ Len(tasks) < TasksCap
    /\ tasks' = Append(tasks, next)
    /\ next' = next + 1
    /\ UNCHANGED <<manifest, environ, lpc, numJobs, tasksClosed, taskErrors, wg,
                   wpc, werr, ran, verified, analyzed, loadErr>>

\* load.go:251: close(tasks).
LoadCloseTasks ==
    /\ lpc = "produce"
    /\ next > Len(manifest)
    /\ tasksClosed' = TRUE
    /\ lpc' = "wait"
    /\ UNCHANGED <<manifest, environ, numJobs, tasks, taskErrors, next, wg,
                   wpc, werr, ran, verified, analyzed, loadErr>>

\* The value load returns for the errors read from taskErrors (load.go:256-267).
MasterError(errors) ==
    IF errors # <<>> THEN [kind |-> "master", messages |-> errors]
    ELSE [kind |-> "nil", messages |-> <<>>]

\* load.go:253-267: wg.Wait() returns, taskErrors is closed and drained, and
\* load returns.
LoadWaitAndReturn ==
    /\ lpc = "wait"
    /\ wg = 0
    /\ loadErr' = MasterError(taskErrors)
    /\ taskErrors' = <<>>
    /\ lpc' = "done"
    /\ UNCHANGED <<manifest, environ, numJobs, tasks, tasksClosed, next, wg,
                   wpc, werr, ran, verified, analyzed>>

\* load.go:227-229 and 233: the range over tasks gives the worker its next
\* task, for which it runs copyCommand; or it ends once the channel is closed
\* and empty, and the worker calls wg.Done().
WorkerRange(w) ==
    /\ lpc \in {"produce", "wait"}
    /\ wpc[w] = "range"
    /\ IF tasks # <<>>
       THEN LET t == Head(tasks)
                r == copyCommand(environ, t, manifest[t])
            IN  /\ tasks' = Tail(tasks)
                /\ ran' = [ran EXCEPT ![t] = @ + 1]
                /\ verified' = IF r.verified THEN verified \cup {t} ELSE verified
                /\ analyzed' = IF r.analyzed THEN analyzed \cup {t} ELSE analyzed
                /\ werr' = [werr EXCEPT ![w] = r.err]
                /\ wpc' = [wpc EXCEPT ![w] = IF r.err # NoLoadErr THEN "send" ELSE "range"]
                /\ UNCHANGED wg
       ELSE /\ tasksClosed
            /\ wpc' = [wpc EXCEPT ![w] = "done"]
            /\ wg' = wg - 1
            /\ UNCHANGED <<tasks, ran, verified, analyzed, werr>>
    /\ UNCHANGED <<manifest, environ, lpc, numJobs, tasksClosed, taskErrors, next, loadErr>>

\* load.go:230: taskErrors <- err; the send blocks while the channel is full.
WorkerSend(w) ==
    /\ wpc[w] = "send"
    /\ Len(taskErrors) < TaskErrorsCap
    /\ taskErrors' = Append(taskErrors, werr[w])
    /\ werr' = [werr EXCEPT ![w] = NoLoadErr]
    /\ wpc' = [wpc EXCEPT ![w] = "range"]
    /\ UNCHANGED <<manifest, environ, lpc, numJobs, tasks, tasksClosed, next, wg,
                   ran, verified, analyzed, loadErr>>

NextLoad ==
    \/ LoadStart /\ UNCHANGED <<ddlVars, copyVars, versionVars, openVars>>
    \/ LoadEnqueue /\ UNCHANGED <<ddlVars, copyVars, versionVars, openVars>>
    \/ LoadCloseTasks /\ UNCHANGED <<ddlVars, copyVars, versionVars, openVars>>
    \/ LoadWaitAndReturn /\ UNCHANGED <<ddlVars, copyVars, versionVars, openVars>>
    \/ \E w \in 1..numJobs : WorkerRange(w) /\ UNCHANGED <<ddlVars, copyVars, versionVars, openVars>>
    \/ \E w \in 1..numJobs : WorkerSend(w) /\ UNCHANGED <<ddlVars, copyVars, versionVars, openVars>>

InitSpecLoad == DDLIdle /\ InitLoad /\ CopyIdle /\ VersionIdle /\ OpenIdle

SpecLoad == InitSpecLoad /\ [][NextLoad]_vars

\* The goroutines of load are scheduled fairly: while some goroutine can
\* take a step, one is taken (every copyCommand is one terminating step).
FairLoad == WF_vars(NextLoad)

SpecLoadFair == InitSpecLoad /\ [][NextLoad]_vars /\ FairLoad

\* ------------------------------------------- one copyCommand, step by step
\* Most physical lines of a csv file (the header included), and most bytes
\* one Read returns.
MaxLines == 3
MaxChunk == 2

\* A line is empty or not.
LineLengths == {0, 1}

CsvFiles ==
    {c \in [lines : UNION {[1..n -> LineLengths] : n \in 1..MaxLines},
            terminated : BOOLEAN] :
        c.terminated \/ c.lines[Len(c.lines)] > 0}

\* The tasks observed: at most one step of copyCommand fails.
CopyTasks ==
    {t \in [headerOk : BOOLEAN, runOk : BOOLEAN, countOk : BOOLEAN,
            actualRows : 0..MaxLines, csv : CsvFiles,
            readOk : BOOLEAN, analyzeOk : BOOLEAN] :
        /\ Cardinality({f \in {"headerOk", "runOk", "countOk", "readOk", "analyzeOk"} : ~t[f]}) <= 1
        /\ ~t.countOk => t.actualRows = 0}

InitCopy ==
    /\ copyTask \in CopyTasks
    /\ cpc = "start"
    /\ cpos = 0
    /\ clc = LineCounterStart
    /\ copyResult = [err |-> NoLoadErr, verified |-> FALSE, analyzed |-> FALSE]

CopyFile == FileBytes(copyTask.csv.lines, copyTask.csv.terminated)

\* load.go:125-164.
CopyStart ==
    /\ cpc = "start"
    /\ LET early == CopyUntilCount(environ, 1, copyTask)
       IN  IF early # NoLoadErr
           THEN /\ copyResult' = [err |-> early, verified |-> FALSE, analyzed |-> FALSE]
                /\ cpc' = "done"
           ELSE /\ cpc' = "counting"
                /\ UNCHANGED copyResult
    /\ UNCHANGED <<copyTask, cpos, clc>>

\* load.go:48-66: one Read of lineCounter; it returns up to MaxChunk bytes,
\* io.EOF no earlier than with the last bytes, and an error at any point of
\* a file that cannot be read.
LineCounterLoop ==
    /\ cpc = "counting"
    /\ \E c \in 0..MaxChunk, e \in {"nil", "EOF", "error"} :
          /\ cpos + c <= Len(CopyFile)
          /\ e = "EOF" => (copyTask.readOk /\ cpos + c = Len(CopyFile))
          /\ e = "error" <=> (~copyTask.readOk /\ c = 0)
          /\ clc' = LineCounterRead(clc, SubSeq(CopyFile, cpos + 1, cpos + c), e)
          /\ cpos' = cpos + c
          /\ cpc' = IF clc'.returned THEN "compare" ELSE cpc
    /\ UNCHANGED <<copyTask, copyResult>>

\* load.go:166-183.
CopyFinish ==
    /\ cpc = "compare"
    /\ copyResult' = CopyAfterCount(1, copyTask, clc)
    /\ cpc' = "done"
    /\ UNCHANGED <<copyTask, cpos, clc>>

NextCopy ==
    \/ CopyStart /\ UNCHANGED <<ddlVars, loadVars, versionVars, openVars>>
    \/ LineCounterLoop /\ UNCHANGED <<ddlVars, loadVars, versionVars, openVars>>
    \/ CopyFinish /\ UNCHANGED <<ddlVars, loadVars, versionVars, openVars>>

InitSpecCopy ==
    /\ DDLIdle
    /\ LoadIdle
    /\ InitCopy
    /\ VersionIdle
    /\ OpenIdle

SpecCopy == InitSpecCopy /\ [][NextCopy]_vars

\* ============================================ load.go: version strings
\* Most characters of a version string.
MaxVersionLen == 7

\* A version string is its characters: digits and the separator ".".
VersionChars == {"2", "3", "."}
Versions(n) == UNION {[1..k -> VersionChars] : k \in 0..n}

\* strings.Split(version, "."): n separators give n+1 parts, empty ones kept.
RECURSIVE SplitVersion(_)
SplitVersion(v) ==
    LET dots == {i \in 1..Len(v) : v[i] = "."}
    IN  IF dots = {} THEN <<v>>
        ELSE <<SubSeq(v, 1, Min(dots) - 1)>>
             \o SplitVersion(SubSeq(v, Min(dots) + 1, Len(v)))

\* A slip: only X.Y.Z is accepted.
versionToShorthandOnlyThree(v) ==
    LET parts == SplitVersion(v)
    IN  IF Len(parts) # 3
        THEN [shortVersion |-> <<>>, err |-> "format"]
        ELSE [shortVersion |-> parts[1] \o parts[2], err |-> "nil"]

\* versionToShorthand (load.go:188-194).
versionToShorthand(v) ==
    LET parts == SplitVersion(v)
    IN  IF Len(parts) # 2 /\ Len(parts) # 3
        THEN [shortVersion |-> <<>>, err |-> "format"]
        ELSE [shortVersion |-> parts[1] \o parts[2], err |-> "nil"]

InitVersion ==
    /\ version \in Versions(MaxVersionLen)
    /\ vpc = "call"
    /\ shortVersion = [shortVersion |-> <<>>, err |-> "nil"]

\* One call of versionToShorthand(version), as databaseName makes it
\* (load.go:199).
VersionToShorthandCall ==
    /\ vpc = "call"
    /\ shortVersion' = versionToShorthand(version)
    /\ vpc' = "done"
    /\ UNCHANGED version

NextVersion ==
    VersionToShorthandCall /\ UNCHANGED <<ddlVars, loadVars, copyVars, openVars>>

InitSpecVersion == DDLIdle /\ LoadIdle /\ CopyIdle /\ InitVersion /\ OpenIdle

SpecVersion == InitSpecVersion /\ [][NextVersion]_vars

\* ==================================================== database.go: Open
\* Most Open calls made in one process.
MaxCalls == 2

Models == {"pedsnet", "pedsnet-core", "pedsnet-vocab"}

\* The version strings passed to Open: X.Y, two of the form X.Y.Z, X,
\* W.X.Y.Z and "".
OpenVersions ==
    { <<"2", ".", "2">>, <<"2", ".", "2", ".", "3">>, <<"2", ".", "3", ".", "2">>,
      <<"2">>, <<"2", ".", "2", ".", "3", ".", "3">>, <<>> }

\* Pattern strings: none, the vocabulary pattern, one given by the caller.
VocabPat == "pedsnetVocabTablesPat"
PersonPat == "^person$"
PatternStrings == {"", PersonPat}

\* regexp.Compile of the pattern strings above ("" is never compiled).
Compile(str) ==
    CASE str = "" -> NilRegexp
      [] str = VocabPat -> pedsnetVocabTablesPat
      [] OTHER -> Regexp({"person"})

\* What the service answers to the two GET requests of isValidModelVersion:
\* no answer, or the status of the response.
DmsaAnswers == [root : {"unreachable", "200", "500"}, tables : {"unreachable", "200", "404"}]

OpenCalls ==
    [model : Models, modelVersion : OpenVersions,
     includeTablesPat : PatternStrings, excludeTablesPat : PatternStrings]

\* isValidModelVersion storing the answer in the cache on the "not valid"
\* return as well as on the "valid" one.
isValidModelVersionCachesFailure(cache, model, v, svc) ==
    IF cache # "nil"
    THEN [isValid |-> cache = "true", err |-> "nil", cache |-> cache, requests |-> 0]
    ELSE IF Len(SplitVersion(v)) # 3
    THEN [isValid |-> FALSE, err |-> "format", cache |-> cache, requests |-> 0]
    ELSE IF svc.root = "unreachable"
    THEN [isValid |-> FALSE, err |-> "unreachable", cache |-> cache, requests |-> 1]
    ELSE IF svc.root # "200"
    THEN [isValid |-> FALSE, err |-> "service", cache |-> cache, requests |-> 1]
    ELSE IF svc.tables = "unreachable"
    THEN [isValid |-> FALSE, err |-> "unreachable", cache |-> cache, requests |-> 2]
    ELSE IF svc.tables # "200"
    THEN [isValid |-> FALSE, err |-> "nil", cache |-> "false", requests |-> 2]
    ELSE [isValid |-> TRUE, err |-> "nil", cache |-> "true", requests |-> 2]

\* isValidModelVersion (database.go:73-112): the answer, the error, the
\* cache afterwards and the number of GET requests made.
isValidModelVersion(cache, model, v, svc) ==
    IF cache # "nil"
    THEN [isValid |-> TRUE, err |-> "nil", cache |-> cache, requests |-> 0]
    ELSE IF Len(SplitVersion(v)) # 3
    THEN [isValid |-> FALSE, err |-> "format", cache |-> cache, requests |-> 0]
    ELSE IF svc.root = "unreachable"
    THEN [isValid |-> FALSE, err |-> "unreachable", cache |-> cache, requests |-> 1]
    ELSE IF svc.root # "200"
    THEN [isValid |-> FALSE, err |-> "service", cache |-> cache, requests |-> 1]
    ELSE IF svc.tables = "unreachable"
    THEN [isValid |-> FALSE, err |-> "unreachable", cache |-> cache, requests |-> 2]
    ELSE IF svc.tables # "200"
    THEN [isValid |-> FALSE, err |-> "nil", cache |-> cache, requests |-> 2]
    ELSE [isValid |-> TRUE, err |-> "nil", cache |-> "true", requests |-> 2]

\* checkModelAndVersion (database.go:116-126).
checkModelAndVersion(cache, model, v, svc) ==
    LET r == isValidModelVersion(cache, model, v, svc)
    IN  [err |-> IF r.err # "nil" THEN r.err
                 ELSE IF ~r.isValid THEN "invalid" ELSE "nil",
         cache |-> r.cache, requests |-> r.requests]

\* versionMatchesMinorVersion (database.go:411-414): parts[1] of a version
\* with a single part is out of range, and the call panics.
versionMatchesMinorVersion(v, referenceMinorVersion) ==
    LET parts == SplitVersion(v)
    IN  IF Len(parts) < 2 THEN [panic |-> TRUE, matches |-> FALSE]
        ELSE [panic |-> FALSE,
              matches |-> parts[1] \o <<".">> \o parts[2] = referenceMinorVersion]

pedsnetMinorVersionSupported == <<"2", ".", "2">>

InitOpen ==
    /\ cachedIsValidVersion = "nil"
    /\ openArgs \in OpenCalls
    /\ dmsa \in DmsaAnswers
    /\ opc = "call"
    /\ calls = 1
    /\ requests = 0
    /\ openResult = NoOpenResult
    /\ confirmed = {}

\* Open, database.go:420-454: the model aliases and the patterns they stand
\* for.  A panic of versionMatchesMinorVersion ends the process.
OpenAliases ==
    /\ opc = "call"
    /\ LET a == openArgs
           core == a.model = "pedsnet-core" /\ a.excludeTablesPat = ""
           vocab == a.model = "pedsnet-vocab" /\ a.includeTablesPat = ""
           m == versionMatchesMinorVersion(a.modelVersion, pedsnetMinorVersionSupported)
       IN  IF (core \/ vocab) /\ m.panic
           THEN /\ openResult' = [openResult EXCEPT !.kind = "panic"]
                /\ opc' = "done"
                /\ UNCHANGED openArgs
           ELSE /\ openArgs' =
                     [a EXCEPT !.model = IF a.model \in {"pedsnet-core", "pedsnet-vocab"}
                                         THEN "pedsnet" ELSE a.model,
                               !.excludeTablesPat = IF core THEN VocabPat ELSE @,
                               !.includeTablesPat = IF vocab THEN VocabPat ELSE @]
                /\ opc' = "validate"
                /\ UNCHANGED openResult
    /\ UNCHANGED <<cachedIsValidVersion, dmsa, calls, requests, confirmed>>

\* Open, database.go:456-460: the Database is built and its model and
\* version are checked.
OpenValidate ==
    /\ opc = "validate"
    /\ LET r == checkModelAndVersion(cachedIsValidVersion, openArgs.model,
                                     openArgs.modelVersion, dmsa)
       IN  /\ cachedIsValidVersion' = r.cache
           /\ requests' = r.requests
           /\ confirmed' = IF r.requests = 2 /\ dmsa.tables = "200"
                            THEN confirmed \cup {<<openArgs.model, openArgs.modelVersion>>}
                            ELSE confirmed
           /\ IF r.err # "nil"
              THEN /\ openResult' = [openResult EXCEPT !.kind = "error", !.err = r.err]
                   /\ opc' = "done"
              ELSE /\ opc' = "connect"
                   /\ UNCHANGED openResult
    /\ UNCHANGED <<openArgs, dmsa, calls>>

\* Open, database.go:462-470: the driver name and the connection.
OpenConnect ==
    /\ opc = "connect"
    /\ \E connected \in BOOLEAN :
          openResult' =
              IF connected
              THEN [kind |-> "database", err |-> "nil",
                    database |-> [Model |-> openArgs.model,
                                  ModelVersion |-> openArgs.modelVersion,
                                  includeTables |-> Compile(openArgs.includeTablesPat),
                                  excludeTables |-> Compile(openArgs.excludeTablesPat)]]
              ELSE [openResult EXCEPT !.kind = "error", !.err = "connect"]
    /\ opc' = "done"
    /\ UNCHANGED <<cachedIsValidVersion, openArgs, dmsa, calls, requests, confirmed>>

\* The next Open call of the process.
OpenAgain ==
    /\ opc = "done"
    /\ openResult.kind # "panic"
    /\ calls < MaxCalls
    /\ openArgs' \in OpenCalls
    /\ dmsa' \in DmsaAnswers
    /\ opc' = "call"
    /\ calls' = calls + 1
    /\ requests' = 0
    /\ openResult' = NoOpenResult
    /\ UNCHANGED <<cachedIsValidVersion, confirmed>>

NextOpen ==
    \/ OpenAliases /\ UNCHANGED <<ddlVars, loadVars, copyVars, versionVars>>
    \/ OpenValidate /\ UNCHANGED <<ddlVars, loadVars, copyVars, versionVars>>
    \/ OpenConnect /\ UNCHANGED <<ddlVars, loadVars, copyVars, versionVars>>
    \/ OpenAgain /\ UNCHANGED <<ddlVars, loadVars, copyVars, versionVars>>

InitSpecOpen == DDLIdle /\ LoadIdle /\ CopyIdle /\ VersionIdle /\ InitOpen

SpecOpen == InitSpecOpen /\ [][NextOpen]_vars

\* ===================================================== the DDL pipeline
\* The statement list rawDmsaSql returns for the operation, and its trimmed form.
Fetched == rawDmsaSql(service, ddlOp.operator, ddlOp.operand).sqlStrings
Trimmed(list) == [i \in 1..Len(list) |-> TrimSpace(list[i])]
IsMapBased == ddlOp.patterns.kind = "map"
TargetPattern == IF IsMapBased THEN ddlOp.patterns.entityDrop ELSE ddlOp.patterns.table

\* dmsaSql has just returned its statement list, with a nil error, to
\* operateOnTables; stmts, d and service do not change from here on.
DmsaSqlReturned == pc = "searchPath"

\* What operateOnTables passes to executeSQL, in order.
FullList ==
    (IF d.Schema # "" THEN <<SearchPathSQL(d.Schema)>> ELSE <<>>) \o stmts

IsPrefix(a, b) == Len(a) <= Len(b) /\ a = SubSeq(b, 1, Len(a))

RECURSIVE IsSubsequence(_, _)
IsSubsequence(a, b) ==
    \/ a = <<>>
    \/ /\ b # <<>>
       /\ IF Head(a) = Head(b) THEN IsSubsequence(Tail(a), Tail(b))
          ELSE IsSubsequence(a, Tail(b))

\* The create statements served for the operand, and the table under which
\* the create statement of entity e is classified among them.
Created == rawDmsaSql(service, "ddl", ddlOp.operand).sqlStrings
CreatedWith(created, e) ==
    {i \in 1..Len(created) :
        /\ ~ContainsMarker(created[i])
        /\ FindStringSubmatch(ddlOp.patterns.tableCreate, created[i]).ok
        /\ FindStringSubmatch(ddlOp.patterns.entityCreate, created[i]) = Submatch(e)}
CreateTableOf(created, e) ==
    FindStringSubmatch(ddlOp.patterns.tableCreate, created[Max(CreatedWith(created, e))]).sub

\* The table name a trimmed statement of the operation stands for (none:
\* ok = FALSE).
TableOf(created, stmt) ==
    LET m == FindStringSubmatch(TargetPattern, stmt)
    IN  IF ~m.ok THEN [ok |-> FALSE, table |-> ""]
        ELSE IF ~IsMapBased THEN [ok |-> TRUE, table |-> m.sub]
        ELSE IF CreatedWith(created, m.sub) = {} THEN [ok |-> FALSE, table |-> ""]
        ELSE [ok |-> TRUE, table |-> CreateTableOf(created, m.sub)]

\* The filter as the specification words it.
PassesFilter(table) ==
    \/ d.includeTables.set /\ table \in d.includeTables.matches
    \/ d.excludeTables.set /\ table \notin d.excludeTables.matches

\* C3: when statement i of the list fails inside the transaction, exactly the
\* statements before it were executed and none after it, the transaction is
\* never committed and ends rolled back, nothing persists, and the error
\* carries the text of statement i.
C3_DDLAtomicity ==
    err.kind = "exec" =>
        /\ tx \in {"open", "rolledback"}
        /\ pc = "done" => tx = "rolledback"
        /\ persisted = <<>>
        /\ \E i \in 1..Len(FullList) :
              /\ executed = SubSeq(FullList, 1, i - 1)
              /\ err.text = FullList[i]
        /\ idx <= Len(stmts) /\ Len(executed) = Len(FullList) - Len(stmts) + idx - 1
              => err.text = stmts[idx]

C3_Witness ==
    /\ pc = "done" /\ err.kind = "exec" /\ tx = "rolledback"
    /\ Len(stmts) = 3 /\ idx = 3 /\ err.text = stmts[3] /\ Len(executed) >= 2
    /\ ~ContainsMarker(stmts[3]) /\ stmts[1] # stmts[3]

\* C4: every statement dmsaSql returns contains the version_history marker or
\* stands for a table that matches the include pattern, when one is set, or
\* does not match the exclude pattern, when one is set.
C4_FilterSound ==
    DmsaSqlReturned =>
        LET created == Created
        IN  \A i \in 1..Len(stmts) :
                \/ ContainsMarker(stmts[i])
                \/ LET t == TableOf(created, stmts[i])
                   IN  t.ok /\ PassesFilter(t.table)

C4_Witness ==
    /\ DmsaSqlReturned /\ d.excludeTables.set /\ ~d.includeTables.set
    /\ \E i \in 1..Len(stmts) : ~ContainsMarker(stmts[i])
    /\ \E i \in 1..Len(Fetched) :
          /\ TableOf(Created, TrimSpace(Fetched[i])).ok
          /\ ~PassesFilter(TableOf(Created, TrimSpace(Fetched[i])).table)

\* C5: with neither pattern configured, every statement without the marker
\* whose table name the pattern resolves is in the list dmsaSql returns.
C5_DefaultKeepsAll ==
    (DmsaSqlReturned /\ ~d.includeTables.set /\ ~d.excludeTables.set) =>
        LET created == Created
            fetched == Trimmed(Fetched)
        IN  \A i \in 1..Len(fetched) :
                (~ContainsMarker(fetched[i]) /\ TableOf(created, fetched[i]).ok)
                    => \E j \in 1..Len(stmts) : stmts[j] = fetched[i]

\* C6: the statements with the version_history marker that dmsaSql returns are
\* exactly those of the fetched list, whatever the patterns and the operation.
C6_LifecycleKept ==
    DmsaSqlReturned =>
        SelectSeq(stmts, ContainsMarker) = SelectSeq(Trimmed(Fetched), ContainsMarker)

C6_Witness ==
    /\ DmsaSqlReturned /\ d.includeTables.set /\ d.excludeTables.set
    /\ Len(SelectSeq(stmts, ContainsMarker)) >= 2
    /\ Len(stmts) < Len(Fetched)

\* C7: the list dmsaSql returns is a subsequence of the (trimmed) fetched
\* list, and operateOnTables executes or prints it in exactly that order.
C7_OrderPreserved ==
    /\ DmsaSqlReturned => IsSubsequence(stmts, Trimmed(Fetched))
    /\ pc \in {"searchPath", "loop", "defer", "done"} =>
          /\ IsPrefix(executed \o printed, FullList)
          /\ (pc = "done" /\ err.kind \in {"nil", "commit"}) => executed \o printed = FullList

C7_Witness ==
    /\ pc = "done" /\ err = NoErr /\ tx = "committed"
    /\ Len(stmts) = 2 /\ stmts[1] # stmts[2] /\ Len(Fetched) >= 4
    /\ executed = FullList

\* C8: without a database handle no transaction is opened and nothing is
\* executed, committed or rolled back; the statements are printed in order,
\* each exactly once when the operation returns without error.
C8_DryRun ==
    d.db = "nil" =>
        /\ tx = "nil"
        /\ executed = <<>>
        /\ persisted = <<>>
        /\ IsPrefix(printed, FullList)
        /\ (pc = "done" /\ err = NoErr) => printed = FullList

C8_Witness ==
    /\ d.db = "nil" /\ pc = "done" /\ err = NoErr
    /\ Len(stmts) >= 2 /\ Len(printed) = Len(stmts) + 1

\* C10: every statement without the marker that a map-based drop operation
\* keeps was filtered on the table under which the create statement of the
\* same entity name is classified.
C10_RoundTrip ==
    (DmsaSqlReturned /\ IsMapBased) =>
        LET created == Created
            built == dmsaSqlMap(service, "ddl", ddlOp.operand, ddlOp.patterns)
        IN  \A i \in 1..Len(stmts) :
                ~ContainsMarker(stmts[i]) =>
                    LET e == FindStringSubmatch(TargetPattern, stmts[i]).sub
                    IN  /\ CreatedWith(created, e) # {}
                        /\ ResolveTable(TRUE, built.map, e) =
                               [ok |-> TRUE, table |-> CreateTableOf(created, e)]
                        /\ ShouldIncludeTable(d, CreateTableOf(created, e))

C10_Witness ==
    /\ DmsaSqlReturned /\ IsMapBased /\ d.includeTables.set
    /\ \E i \in 1..Len(stmts) : ~ContainsMarker(stmts[i])
    /\ Len(stmts) < Len(Fetched)
    /\ Len(Created) >= 3

\* ==================================================== the load pipeline
\* The task at manifest position t fails: copyCommand returns an error for it.
TaskFails(t) == copyCommand(environ, t, manifest[t]).err # NoLoadErr
LoadReturned == lpc = "done" /\ loadErr.kind # "invalidJobs"
Workers == 1..numJobs

\* A worker that waits to send its error while taskErrors is full waits for
\* ever: the channel is read only after every worker has called wg.Done().
BlockedOnSend(w) == wpc[w] = "send" /\ Len(taskErrors) = TaskErrorsCap

\* C1: failing tasks never keep a task from being attempted; the error load
\* returns holds the error of every task that failed, every task that did not
\* fail is loaded and verified, and load returns nil exactly when none failed.
C1_FailSlowAggregation ==
    /\ LoadReturned =>
          /\ \A t \in 1..Len(manifest) :
                /\ ran[t] >= 1
                /\ TaskFails(t) =>
                      \E i \in 1..Len(loadErr.messages) :
                          loadErr.messages[i] = copyCommand(environ, t, manifest[t]).err
                /\ ~TaskFails(t) => t \in verified
          /\ loadErr.kind = "nil" <=> \A t \in 1..Len(manifest) : ~TaskFails(t)
    /\ ~ /\ lpc \in {"produce", "wait"}
         /\ \E t \in 1..Len(manifest) : ran[t] = 0
         /\ \A w \in Workers : BlockedOnSend(w)

\* C2: no task is run twice, load never stops before it has returned, and
\* when it returns every task of the manifest has been run exactly once.
C2_WorkerPoolExhaustive ==
    /\ \A t \in 1..Len(manifest) : ran[t] <= 1
    /\ LoadReturned => \A t \in 1..Len(manifest) : ran[t] = 1
    /\ lpc # "done" => ENABLED NextLoad

\* ===================================================== one copyCommand
\* The data lines of the file being loaded.
DataLines == Len(copyTask.csv.lines) - 1
SubprocessSucceeded ==
    copyTask.headerOk /\ environ.psqlInPath /\ copyTask.runOk

\* C9: after a successful subprocess, copyCommand succeeds only if the table
\* holds exactly as many rows as the file has data lines; when both counts
\* are obtained it succeeds exactly then, and otherwise returns the mismatch
\* error with both numbers, whatever the chunks and the final newline.
C9_RowCountVerified ==
    (cpc = "done" /\ SubprocessSucceeded) =>
        /\ copyResult.err = NoLoadErr =>
              (copyTask.countOk /\ copyTask.actualRows = DataLines)
        /\ (copyTask.countOk /\ copyTask.readOk) =>
              IF copyTask.actualRows = DataLines
              THEN copyResult.err = NoLoadErr /\ copyResult.verified
              ELSE copyResult.err = MismatchError(1, copyTask.actualRows, DataLines)

C9_Witness ==
    /\ cpc = "done" /\ SubprocessSucceeded /\ copyTask.countOk /\ copyTask.readOk
    /\ ~copyTask.csv.terminated /\ DataLines = 2
    /\ copyTask.actualRows = 1
    /\ copyResult.err = MismatchError(1, 1, 2)

\* ===================================================== version strings
\* The number of parts of the version string, and the characters other than
\* "." that come before its second ".".
NumParts == Cardinality({i \in 1..Len(version) : version[i] = "."}) + 1
BeforeSecondDot ==
    {i \in 1..Len(version) :
        /\ version[i] # "."
        /\ Cardinality({j \in 1..(i - 1) : version[j] = "."}) <= 1}
FirstTwoParts ==
    [k \in 1..Cardinality(BeforeSecondDot) |->
            version[CHOOSE i \in BeforeSecondDot :
                        Cardinality({j \in BeforeSecondDot : j <= i}) = k]]

\* C11: a version string of two or three parts yields the concatenation of
\* its first two parts; a string of one part or of four or more is rejected
\* with an error.
C11_VersionShorthand ==
    vpc = "done" =>
        IF NumParts \in {2, 3}
        THEN shortVersion = [shortVersion |-> FirstTwoParts, err |-> "nil"]
        ELSE shortVersion.err # "nil"

C11_Witness ==
    /\ vpc = "done"
    /\ version = <<"2", ".", "3", ".", "2">>
    /\ shortVersion = [shortVersion |-> <<"2", "3">>, err |-> "nil"]

\* ================================================ the load pipeline, again
\* The override value as a positive integer, when it is one.
PositiveJobs == [str \in {"1", "2", "3"} |-> CASE str = "1" -> 1 [] str = "2" -> 2 [] str = "3" -> 3]
OverrideSet == environ.DATABASE_LOAD_JOBS # ""
OverrideValid == environ.DATABASE_LOAD_JOBS \in DOMAIN PositiveJobs
NoWorkStarted ==
    /\ numJobs = 0 /\ wpc = <<>> /\ wg = 0
    /\ tasks = <<>> /\ next = 1
    /\ \A t \in 1..Len(manifest) : ran[t] = 0
    /\ verified = {} /\ analyzed = {} /\ taskErrors = <<>>

\* C12: with an override that is set and is not a positive integer load fails
\* before any work starts: no worker, no task enqueued, no copyCommand; with
\* a positive integer N exactly N workers run, and exactly 4 when it is unset.
C12_PoolSizeOverride ==
    IF OverrideSet /\ ~OverrideValid
    THEN /\ lpc \in {"start", "done"}
         /\ NoWorkStarted
         /\ lpc = "done" => loadErr.kind = "invalidJobs"
    ELSE lpc # "start" =>
            /\ loadErr.kind # "invalidJobs"
            /\ numJobs = (IF OverrideSet THEN PositiveJobs[environ.DATABASE_LOAD_JOBS] ELSE 4)
            /\ Len(wpc) = numJobs
            /\ wg = Cardinality({w \in 1..numJobs : wpc[w] # "done"})

C12_Witness ==
    /\ lpc = "done" /\ environ.DATABASE_LOAD_JOBS = "0"
    /\ Len(manifest) >= 2 /\ loadErr.kind = "invalidJobs"

\* copyCommand reads the header row of the file first and resolves psql next
\* (load.go:127-134): the tasks whose header was read, and the number of
\* exec.LookPath calls made so far.
HeaderReads == {t \in 1..Len(manifest) : ran[t] >= 1}
LookPathCalls == Cardinality({t \in HeaderReads : manifest[t].headerOk})

\* C13: when psql is not resolvable no header row is read, no subprocess is
\* started and no task is processed, and load returns the failure; psql is
\* resolved once for the run.
C13_PreflightToolCheck ==
    /\ ~environ.psqlInPath =>
          /\ HeaderReads = {}
          /\ lpc = "done" => loadErr.kind # "nil"
    /\ LookPathCalls <= 1

\* The data lines of the file of manifest position t.
TaskDataLines(t) == Len(manifest[t].csv.lines) - 1
ErrorsOf(t) ==
    {i \in 1..Len(taskErrors) : taskErrors[i].table = t /\ taskErrors[i].kind # "nil"}
MessagesOf(t) ==
    {i \in 1..Len(loadErr.messages) : loadErr.messages[i].table = t}

\* C14: VACUUM FREEZE ANALYZE is issued for a table only after its subprocess
\* succeeded and the counts matched; when it fails the task does not fail:
\* no error for the table reaches taskErrors or what load returns.
C14_MaintenanceBestEffort ==
    /\ \A t \in analyzed :
          /\ t \in verified /\ ran[t] = 1
          /\ manifest[t].headerOk /\ environ.psqlInPath /\ manifest[t].runOk
          /\ manifest[t].countOk /\ manifest[t].readOk
          /\ manifest[t].actualRows = TaskDataLines(t)
    /\ \A t \in 1..Len(manifest) :
          (t \in verified /\ ~manifest[t].analyzeOk) =>
              /\ ErrorsOf(t) = {} /\ MessagesOf(t) = {}
              /\ \A w \in Workers : werr[w].kind # "nil" => werr[w].table # t
    /\ (LoadReturned /\ \A t \in 1..Len(manifest) : manifest[t] \in {GoodTask, AnalyzeFailsTask}
            /\ environ.psqlInPath)
          => loadErr.kind = "nil"

C14_Witness ==
    /\ LoadReturned /\ Len(manifest) = 2
    /\ manifest[1] = AnalyzeFailsTask /\ manifest[2] = RunFailsTask
    /\ analyzed = {1} /\ verified = {1}
    /\ Len(loadErr.messages) = 1 /\ loadErr.messages[1].table = 2

\* The errors the workers have written to taskErrors: one for each failing
\* task whose copyCommand has run and whose error is not still in the hands
\* of its worker.
WrittenErrors ==
    Cardinality({t \in 1..Len(manifest) : ran[t] >= 1 /\ TaskFails(t)})
        - Cardinality({w \in Workers : wpc[w] = "send"})

\* C17: taskErrors is closed and read only after every worker has called
\* wg.Done(); no worker writes to it after that; and every error a worker
\* has written is read by load: what is in the channel is what was written,
\* load can still go on to read it, and what load returns holds all of it.
C17_DrainAfterBarrier ==
    /\ LoadReturned =>
          /\ wg = 0
          /\ \A w \in Workers : wpc[w] = "done" /\ werr[w] = NoLoadErr
          /\ taskErrors = <<>>
          /\ Len(loadErr.messages) = WrittenErrors
    /\ lpc \in {"produce", "wait"} =>
          /\ Len(taskErrors) = WrittenErrors
          /\ taskErrors # <<>> => ENABLED NextLoad

\* ================================================ the DDL pipeline, again
\* C18: a transaction is opened only by db.Begin() and finished only by the
\* deferred function of transact, once, by Commit or by Rollback, however
\* txFunc ended; Commit is called exactly when txFunc returned nil and did
\* not panic, and the error of a failed Commit is the error returned.
C18_TransactionFinishedOnce ==
    [][ /\ tx' # tx =>
              \/ pc = "call" /\ tx = "nil" /\ tx' = "open"
              \/ pc = "defer" /\ tx = "open"
                   /\ tx' \in {"committed", "rolledback", "commitfailed"}
        /\ (pc = "call" /\ pc' = "done") => tx' = "nil"
        /\ pc' = "done" => pc \in {"call", "defer"}
        /\ (pc = "defer" /\ pc' = "done") =>
              /\ tx = "open" => tx' # "open"
              /\ tx' \in {"committed", "commitfailed"}
                    <=> (tx = "open" /\ err = NoErr /\ recovered = "none")
              /\ tx' = "commitfailed" => err'.kind = "commit"
              /\ tx' = "committed" => (err' = NoErr /\ persisted' = executed)
              /\ tx' = "rolledback" => (err' # NoErr /\ persisted' = <<>>)
              /\ recovered # "none" => err'.kind = "panic"
      ]_vars

C18_Witness ==
    /\ pc = "done" /\ recovered = "string" /\ tx = "rolledback"
    /\ err.kind = "panic" /\ Len(executed) >= 2 /\ idx = 2 /\ Len(stmts) = 3

\* dmsaSql has been called and has returned, with or without an error.
DmsaSqlCalled == pc \in {"searchPath", "loop", "defer", "done"} /\ err.kind # "begin"

\* The statements of the fetched list kept in the list dmsaSql returned.
IsKept(stmt) == \E j \in 1..Len(stmts) : stmts[j] = stmt

\* C16: with both an include and an exclude pattern, a statement without the
\* marker whose table name is resolved is kept exactly when the table matches
\* the include pattern, and the list is the one dmsaSql returns with no
\* exclude pattern or with any other one.
C16_IncludePrecedence ==
    (DmsaSqlReturned /\ d.includeTables.set /\ d.excludeTables.set) =>
        LET created == Created
            fetched == Trimmed(Fetched)
            With(re) == dmsaSql([d EXCEPT !.excludeTables = re], service,
                                ddlOp.operator, ddlOp.operand, ddlOp.patterns)
        IN  /\ \A i \in 1..Len(fetched) :
                  LET t == TableOf(created, fetched[i])
                  IN  (~ContainsMarker(fetched[i]) /\ t.ok) =>
                          (IsKept(fetched[i]) <=> t.table \in d.includeTables.matches)
            /\ \A re \in {NilRegexp, Regexp({"person"}), Regexp({"person", "concept"})} :
                  With(re) = [sqlStrings |-> stmts, err |-> NoErr]

C16_Witness ==
    /\ DmsaSqlReturned /\ d.includeTables.set /\ d.excludeTables.set
    /\ \E i \in 1..Len(stmts) :
          /\ ~ContainsMarker(stmts[i])
          /\ TableOf(Created, stmts[i]).table \in d.excludeTables.matches
    /\ \E i \in 1..Len(Fetched) :
          /\ ~ContainsMarker(Fetched[i])
          /\ TableOf(Created, TrimSpace(Fetched[i])).ok
          /\ ~IsKept(TrimSpace(Fetched[i]))

\* C19: a drop of indexes and a drop of constraints alike resolve the table
\* of each drop statement through the map built from the create statements
\* of the operand: every kept statement without the marker names an entity
\* of the map and was filtered on the table the map gives for it.
C19_MapBasedDrops ==
    (DmsaSqlReturned /\ ddlOp.operator = "drop"
        /\ ddlOp.operand \in {"indexes", "constraints"}) =>
        /\ IsMapBased
        /\ LET built == dmsaSqlMap(service, "ddl", ddlOp.operand, ddlOp.patterns)
           IN  \A i \in 1..Len(stmts) :
                   ~ContainsMarker(stmts[i]) =>
                       LET e == FindStringSubmatch(ddlOp.patterns.entityDrop, stmts[i])
                       IN  /\ e.ok /\ e.sub \in DOMAIN built.map
                           /\ PassesFilter(built.map[e.sub])

\* A create statement without the marker in which the table-name pattern
\* matches and the entity-name pattern does not.
Inconsistent(created) ==
    \E i \in 1..Len(created) :
        /\ ~ContainsMarker(created[i])
        /\ FindStringSubmatch(ddlOp.patterns.tableCreate, created[i]).ok
        /\ ~FindStringSubmatch(ddlOp.patterns.entityCreate, created[i]).ok
\* The entities of the create statements in which both patterns match.
MappedEntities(created) ==
    {FindStringSubmatch(ddlOp.patterns.entityCreate, created[i]).sub :
        i \in {k \in 1..Len(created) :
                  /\ ~ContainsMarker(created[k])
                  /\ FindStringSubmatch(ddlOp.patterns.tableCreate, created[k]).ok
                  /\ FindStringSubmatch(ddlOp.patterns.entityCreate, created[k]).ok}}
BothFetched ==
    /\ service[<<ddlOp.operator, ddlOp.operand>>].status = 200
    /\ service[<<"ddl", ddlOp.operand>>].status = 200

\* C20: in a map-based drop, when a create statement without the marker
\* matches the table-name pattern and not the entity-name pattern the
\* operation fails with that error, nothing is executed or printed and the
\* transaction is rolled back; otherwise building the map raises no error
\* and the map holds exactly the entities of the statements both patterns
\* match.
C20_InconsistentCreateFatal ==
    (DmsaSqlCalled /\ IsMapBased /\ BothFetched) =>
        LET created == Created
            built == dmsaSqlMap(service, "ddl", ddlOp.operand, ddlOp.patterns)
        IN  IF Inconsistent(created)
            THEN /\ err.kind = "entityCreate"
                 /\ stmts = <<>> /\ executed = <<>> /\ printed = <<>> /\ persisted = <<>>
                 /\ pc \in {"defer", "done"}
                 /\ pc = "done" => tx = (IF d.db = "nil" THEN "nil" ELSE "rolledback")
            ELSE /\ err.kind # "entityCreate"
                 /\ built.err = NoErr
                 /\ DOMAIN built.map = MappedEntities(created)

C20_Witness ==
    /\ pc = "done" /\ IsMapBased /\ BothFetched /\ d.db = "open" /\ d.Schema # ""
    /\ Inconsistent(Created) /\ Len(Created) >= 3 /\ Len(Fetched) >= 3
    /\ err.kind = "entityCreate" /\ tx = "rolledback" /\ executed = <<>>

\* ================================================================= Open
\* The number of "."-separated parts of the version passed to Open.
OpenVersionParts ==
    Cardinality({i \in 1..Len(openArgs.modelVersion) : openArgs.modelVersion[i] = "."}) + 1

\* C15: starting from an empty cache, the version-format validation of Open
\* rejects a version exactly when it is neither of the form X.Y nor of the
\* form X.Y.Z.
C15_AcceptedVersionFormats ==
    (opc = "done" /\ calls = 1 /\ openResult.kind # "panic") =>
        (openResult.err = "format" <=> OpenVersionParts \notin {2, 3})

\* ============================================ the DDL pipeline, unmapped
\* The map of a map-based operation, and the positions of the fetched list
\* whose statement has no marker and names an entity that is not in the map.
BuiltMap == dmsaSqlMap(service, "ddl", ddlOp.operand, ddlOp.patterns)

\* dmsaSql has just returned to operateOnTables, with a nil error or with one
\* of its errors; d, service and stmts do not change from here on.
DmsaSqlJustReturned ==
    \/ pc = "searchPath"
    \/ pc = "defer" /\ err.kind \in {"fetch", "entityCreate", "lookup"}
Unmapped(fetched, map) ==
    {i \in 1..Len(fetched) :
        LET m == FindStringSubmatch(ddlOp.patterns.entityDrop, fetched[i])
        IN  ~ContainsMarker(fetched[i]) /\ m.ok /\ m.sub \notin DOMAIN map}

\* C21: in a map-based drop, when the entity of some drop statement is not in
\* the map, dmsaSql returns the lookup error, nothing is executed or printed,
\* the search-path directive included, and the transaction is rolled back,
\* whatever the patterns and wherever the statement is in the list.
C21_UnmappedEntityAborts ==
    /\ (DmsaSqlJustReturned /\ IsMapBased /\ BothFetched) =>
          LET built == BuiltMap
              fetched == Trimmed(Fetched)
              unmapped == Unmapped(fetched, built.map)
          IN  (built.err = NoErr /\ unmapped # {}) =>
                  /\ err.kind = "lookup"
                  /\ \E i \in unmapped : err.text = fetched[i]
    /\ err.kind = "lookup" =>
          /\ stmts = <<>> /\ executed = <<>> /\ printed = <<>> /\ persisted = <<>>
          /\ pc \in {"defer", "done"}
          /\ pc = "done" => tx = (IF d.db = "nil" THEN "nil" ELSE "rolledback")

C21_Witness ==
    /\ pc = "done" /\ IsMapBased /\ BothFetched /\ d.db = "open" /\ d.Schema # ""
    /\ d.excludeTables.set /\ ~d.includeTables.set
    /\ Len(Fetched) >= 3
    /\ LET built == BuiltMap
       IN  /\ built.err = NoErr /\ DOMAIN built.map # {}
           /\ 1 \in Unmapped(Trimmed(Fetched), built.map)
           /\ 3 \notin Unmapped(Trimmed(Fetched), built.map)
    /\ ~ContainsMarker(Fetched[3]) /\ TrimSpace(Fetched[3]) # <<>>
    /\ err.kind = "lookup" /\ tx = "rolledback" /\ executed = <<>>

\* A trimmed statement dmsaSql does not recognise: no marker and no match of
\* the pattern of the operation; the empty statement is one.
Unrecognised(stmt) ==
    ~ContainsMarker(stmt) /\ ~FindStringSubmatch(TargetPattern, stmt).ok

\* C23: a statement without the marker that the pattern of the operation does
\* not match, the empty statement after a trailing delimiter included, is not
\* in the list dmsaSql returns, and the list and the error are what dmsaSql
\* gives for the fetched list without these statements.
C23_UnrecognisedDropped ==
    (DmsaSqlJustReturned /\ BothFetched) =>
        LET built == IF IsMapBased THEN BuiltMap ELSE [map |-> EmptyMap, err |-> NoErr]
            Recognised(stmt) == ~Unrecognised(TrimSpace(stmt))
            without == dmsaSqlLoop(d, SelectSeq(Fetched, Recognised), 1, TargetPattern,
                                   IsMapBased, built.map, <<>>, NoErr)
        IN  built.err = NoErr =>
                /\ \A i \in 1..Len(stmts) : ~Unrecognised(stmts[i])
                /\ IF without.err # NoErr
                   THEN err = without.err /\ stmts = <<>>
                   ELSE /\ stmts = without.sqlStrings
                        /\ err.kind \notin {"lookup", "entityCreate", "fetch"}

C23_Witness ==
    /\ DmsaSqlReturned /\ ddlOp.name = "CreateTables" /\ d.excludeTables.set
    /\ Len(Fetched) = 4 /\ Len(stmts) = 2
    /\ Unrecognised(TrimSpace(Fetched[2])) /\ TrimSpace(Fetched[2]) # <<>>
    /\ TrimSpace(Fetched[4]) = <<>>
    /\ stmts = <<TrimSpace(Fetched[1]), TrimSpace(Fetched[3])>>

\* ------------------------------------------------------------------ C22
\* The check of Open is the step taken from opc = "validate": it is cold
\* when cachedIsValidVersion is nil, reports valid when Open goes on to
\* connect, and ends in an error or in "not valid" when Open returns.
ColdCache == cachedIsValidVersion = "nil"

\* A check after the first of the process; the cache being cold, every
\* earlier check ended in an error or in "not valid".
ColdAgain == opc = "validate" /\ calls >= 2 /\ ColdCache

ValidityCacheStep ==
    /\ opc = "validate" =>
          /\ (ColdCache /\ opc' = "connect") =>
                /\ dmsa.root = "200" /\ dmsa.tables = "200"
                /\ requests' = 2
                /\ cachedIsValidVersion' = "true"
          /\ ~ColdCache =>
                /\ requests' = 0
                /\ opc' = "connect"
                /\ cachedIsValidVersion' = cachedIsValidVersion
          /\ opc' = "done" => cachedIsValidVersion' = "nil"
    /\ opc # "validate" => cachedIsValidVersion' = cachedIsValidVersion

\* C22 as stated: a check is valid on a cold cache only if the service root
\* and the tables endpoint both returned 200; after a success the cache is
\* set for the process and later checks make no request; a check that ends in
\* an error or in "not valid" leaves the cache empty, and the next check
\* contacts the service again.
C22_ValidityCacheAsStated ==
    [][ValidityCacheStep /\ (ColdAgain => requests' >= 1)]_vars

\* C22, amended: as above, where the next check contacts the service again
\* if its version passes the format check (three parts); a version that
\* does not is rejected before any request.
C22_ValidityCache ==
    [][/\ ValidityCacheStep
       /\ ColdAgain => (IF OpenVersionParts = 3 THEN requests' >= 1 ELSE requests' = 0)]_vars

\* The first check of the process failed, the second one asked the service
\* both questions, was answered 200 twice and filled the cache.
C22_Witness ==
    /\ calls = 2 /\ opc = "done" /\ openResult.kind = "database"
    /\ requests = 2 /\ cachedIsValidVersion = "true"
    /\ dmsa.root = "200" /\ dmsa.tables = "200"

\* ------------------------------------------------------------------ C25
\* isValidModelVersion has returned valid, with a nil error, for the pair
\* of the call in progress: Open goes on to connect.
ReportedValid == opc = "connect"

AskedPair == <<openArgs.model, openArgs.modelVersion>>

\* C25: in any sequence of calls of one process, isValidModelVersion reports
\* a model/version pair valid only if the service has confirmed that same
\* pair and the version is well-formed (X.Y.Z).
C25_AnswersForThePair ==
    ReportedValid => (AskedPair \in confirmed /\ OpenVersionParts = 3)

\* ------------------------------------------------------------------ C26
\* C26: for every model name and every version string, Open returns a
\* Database or an error; it never crashes.
C26_OpenNeverCrashes ==
    /\ openResult.kind # "panic"
    /\ opc = "done" => openResult.kind \in {"database", "error"}

\* ------------------------------------------------------------------ C24
NoWorkerBlockedOnSend == \A w \in Workers : ~BlockedOnSend(w)

\* C24: under fair scheduling load returns, for every manifest and every
\* number of failing tasks; no worker waits for ever to write its error to
\* taskErrors, and the producer does not wait for ever to enqueue a task.
C24_LoadAlwaysReturns ==
    /\ []NoWorkerBlockedOnSend
    /\ (lpc = "produce") ~> (lpc = "wait")
    /\ <>(lpc = "done")

============================================================================
